---- MODULE Spec2Model ----
(***************************************************************************)
(* The AirlineList component (src/src/components/AirlineList.tsx): an XML  *)
(* document tree held in React state, the record list projected from it    *)
(* with XPath, the add form that appends to the tree, and the sort state.  *)
(*                                                                         *)
(* Strings are sequences of UTF-16 code units, so that the comparison of   *)
(* the sort (JavaScript's < on strings) is computed and not assumed.       *)
(* A DOM node is a record [t, tag, data, kids]; a document value is a      *)
(* record [kind, root] whose root holds zero or one element.               *)
(***************************************************************************)
EXTENDS Naturals, Integers, Sequences, FiniteSets, TLC

VARIABLES xmlDoc, airlines, newAirline, sortKey, sortDirection,
          fetchState, console, thrown, lastEvent, nAdds

\* xmlDoc .. sortDirection are the component's state, fetchState is the
\* position of fetchData.
\* console and thrown are what the last event wrote to the console and
\* whether its handler raised an error nothing caught; lastEvent tells
\* whether the last event was a submit or another one; nAdds counts the
\* appended elements.
vars == <<xmlDoc, airlines, newAirline, sortKey, sortDirection,
          fetchState, console, thrown, lastEvent, nAdds>>

(* ---------------------------- bounds ----------------------------------- *)

\* number of successful submits explored
MaxAdds == 1

\* number of airline blocks under the root of a generated input file
MaxBlocks == 1

(* ---------------------------- strings ---------------------------------- *)

Empty == <<>>
StrA == <<65>>
StrB == <<66>>
StrC == <<67>>
\* the literal "Unknown"
Unknown == <<85, 110, 107, 110, 111, 119, 110>>

SortKeys == {"name", "country", "type"}

\* values an input of the add form can deliver (e.target.value)
InputValues == {Empty, StrB}

RECURSIVE StrLess(_, _)
\* JavaScript a < b on two strings: code unit by code unit, a proper prefix
\* is smaller
StrLess(a, b) ==
    IF a = b \/ Len(b) = 0 THEN FALSE
    ELSE IF Len(a) = 0 THEN TRUE
    ELSE IF Head(a) # Head(b) THEN Head(a) < Head(b)
    ELSE StrLess(Tail(a), Tail(b))

(* ---------------------------- DOM nodes -------------------------------- *)

TextNode(s) == [t |-> "text", tag |-> "", data |-> s, kids |-> <<>>]
Element(tag, kids) == [t |-> "elem", tag |-> tag, data |-> Empty, kids |-> kids]

IsElement(n, tag) == n.t = "elem" /\ n.tag = tag
IsText(n) == n.t = "text"

\* useState<Document | null>(null)
NullDoc == [kind |-> "null", root |-> <<>>]
\* the value of doc when the parser built no document: xmldom's
\* parseFromString reports "invalid doc source" for an empty response
\* text and returns undefined; xpath.select raises a TypeError on it
UndefinedDoc == [kind |-> "undefined", root |-> <<>>]
Document(root) == [kind |-> "doc", root |-> root]

\* the truthiness test of `if (xmlDoc)`
Truthy(doc) == doc.kind = "doc"

(* ---------------------------- XPath ------------------------------------ *)

RECURSIVE DescendantOrSelf(_), DescendantsOfKids(_, _)
\* the node and its descendants in document order (pre-order)
DescendantOrSelf(n) == <<n>> \o DescendantsOfKids(n.kids, 1)
DescendantsOfKids(kids, i) ==
    IF i > Len(kids) THEN <<>>
    ELSE DescendantOrSelf(kids[i]) \o DescendantsOfKids(kids, i + 1)

RECURSIVE NodesOf(_, _)
\* every node of a sequence of subtrees, in document order
NodesOf(roots, i) ==
    IF i > Len(roots) THEN <<>>
    ELSE DescendantOrSelf(roots[i]) \o NodesOf(roots, i + 1)

\* a wrong selection: "/*/airline", the airline children of the root only
SelectAirlines_ChildrenOnly(doc) ==
    IF doc.root = <<>> THEN <<>>
    ELSE SelectSeq(doc.root[1].kids, LAMBDA n : IsElement(n, "airline"))

\* xpath.select("//airline", doc): every airline element of the document,
\* at any depth, in document order
SelectAirlines(doc) ==
    SelectSeq(NodesOf(doc.root, 1), LAMBDA n : IsElement(n, "airline"))

RECURSIVE ChildTexts(_, _, _)
\* the node-set of "./k/text()": the text children of the k children of
\* node, in document order
ChildTexts(kids, k, i) ==
    IF i > Len(kids) THEN <<>>
    ELSE (IF IsElement(kids[i], k)
          THEN SelectSeq(kids[i].kids, IsText)
          ELSE <<>>) \o ChildTexts(kids, k, i + 1)

RECURSIVE DescendantTexts(_, _, _)
\* the node-set of ".//k/text()": text children of k elements at any depth
DescendantTexts(kids, k, i) ==
    IF i > Len(kids) THEN <<>>
    ELSE (IF IsElement(kids[i], k)
          THEN SelectSeq(kids[i].kids, IsText)
          ELSE <<>>)
         \o DescendantTexts(kids[i].kids, k, 1)
         \o DescendantTexts(kids, k, i + 1)

\* a wrong field lookup: the descendant search ".//k/text()"
FieldValue_Descendant(node, k) ==
    LET sel == DescendantTexts(node.kids, k, 1)
    IN  IF sel = <<>> \/ sel[1].data = Empty THEN Unknown ELSE sel[1].data

\* xpath.select1("./k/text()", node)?.nodeValue || "Unknown":
\* the first node of the node-set, "Unknown" when there is none or when
\* its value is the empty string
FieldValue(node, k) ==
    LET sel == ChildTexts(node.kids, k, 1)
    IN  IF sel = <<>> \/ sel[1].data = Empty THEN Unknown ELSE sel[1].data

AirlineOf(node) ==
    [name |-> FieldValue(node, "name"),
     country |-> FieldValue(node, "country"),
     type |-> FieldValue(node, "type")]

\* the value updateAirlineList(doc) hands to setAirlines
UpdateAirlineList(doc) ==
    LET airlineNodes == SelectAirlines(doc)
    IN  [i \in 1..Len(airlineNodes) |-> AirlineOf(airlineNodes[i])]

(* ---------------------------- mutation --------------------------------- *)

\* element.textContent = s on a new element: an empty string adds no text
\* node
TextContent(s) == IF s = Empty THEN <<>> ELSE <<TextNode(s)>>

\* a wrong construction: country and type exchanged
CreateAirlineElement_Swapped(rec) ==
    Element("airline",
            <<Element("name", TextContent(rec.name)),
              Element("country", TextContent(rec.type)),
              Element("type", TextContent(rec.country))>>)

\* createElement / textContent / appendChild of the three fields
CreateAirlineElement(rec) ==
    Element("airline",
            <<Element("name", TextContent(rec.name)),
              Element("country", TextContent(rec.country)),
              Element("type", TextContent(rec.type))>>)

\* a wrong append: the new element is put before the first child
AppendChild_First(parent, child) ==
    [parent EXCEPT !.kids = <<child>> \o @]

\* parent.appendChild(child): the new node becomes the last child
AppendChild(parent, child) ==
    [parent EXCEPT !.kids = Append(@, child)]

(* ---------------------------- serialization ---------------------------- *)

Token(k, tag, data) == [k |-> k, tag |-> tag, data |-> data]

RECURSIVE SerializeNode(_), SerializeKids(_, _)
\* XMLSerializer: a text node is its data, an element without children is
\* an empty-element tag, any other element is its tags around its children
SerializeNode(n) ==
    IF IsText(n) THEN <<Token("text", "", n.data)>>
    ELSE IF n.kids = <<>> THEN <<Token("empty", n.tag, Empty)>>
    ELSE <<Token("open", n.tag, Empty)>>
         \o SerializeKids(n.kids, 1)
         \o <<Token("close", n.tag, Empty)>>
SerializeKids(kids, i) ==
    IF i > Len(kids) THEN <<>>
    ELSE SerializeNode(kids[i]) \o SerializeKids(kids, i + 1)

SerializeToString(doc) == SerializeKids(doc.root, 1)

LogEntry(doc) == [stream |-> "log", text |-> SerializeToString(doc)]
ErrorEntry == [stream |-> "error", text |-> <<>>]

(* ---------------------------- sorting ----------------------------------- *)

\* a wrong comparator: desc does not invert the sign
Compare_NoInvert(a, b, key, dir) ==
    IF StrLess(a[key], b[key]) THEN -1
    ELSE IF StrLess(b[key], a[key]) THEN 1
    ELSE 0

\* the comparator handed to sort()
Compare(a, b, key, dir) ==
    IF StrLess(a[key], b[key]) THEN (IF dir = "asc" THEN -1 ELSE 1)
    ELSE IF StrLess(b[key], a[key]) THEN (IF dir = "asc" THEN 1 ELSE -1)
    ELSE 0

RECURSIVE InsertAt(_, _, _, _, _)
\* the place of x in an ordered list: after every element that the
\* comparator does not put behind it
InsertAt(list, x, key, dir, i) ==
    IF i > Len(list) \/ Compare(list[i], x, key, dir) > 0
    THEN SubSeq(list, 1, i - 1) \o <<x>> \o SubSeq(list, i, Len(list))
    ELSE InsertAt(list, x, key, dir, i + 1)

RECURSIVE SortFirst(_, _, _, _)
\* Array.prototype.sort with the comparator, on the first n elements
SortFirst(list, n, key, dir) ==
    IF n = 0 THEN <<>>
    ELSE InsertAt(SortFirst(list, n - 1, key, dir), list[n], key, dir, 1)

Reverse(list) == [i \in 1..Len(list) |-> list[Len(list) + 1 - i]]

\* a wrong sort: desc is the ascending order read backwards
Sorted_DescReversed(list, key, dir) ==
    IF dir = "asc" THEN SortFirst(list, Len(list), key, "asc")
    ELSE Reverse(SortFirst(list, Len(list), key, "asc"))

\* Array.prototype.sort, which is stable: elements that the comparator
\* calls equal keep their order
Sorted(list, key, dir) == SortFirst(list, Len(list), key, dir)

\* a wrong render: airlines.sort(...) sorts the state array itself
ArrayAfterRender_InPlace(list, key, dir) == Sorted(list, key, dir)

\* the state array after a render: [...airlines].sort(...) sorts a copy,
\* the array itself is the one it was
ArrayAfterRender(list, key, dir) == list

(* ---------------------------- handlers ---------------------------------- *)

BlankAirline == [name |-> Empty, country |-> Empty, type |-> Empty]

\* a wrong handler: a new key keeps the direction
HandleSortState_KeepDirection(key, curKey, curDir) ==
    IF key = curKey
    THEN [sortKey |-> curKey,
          sortDirection |-> IF curDir = "asc" THEN "desc" ELSE "asc"]
    ELSE [sortKey |-> key, sortDirection |-> curDir]

\* handleSort(key)
HandleSortState(key, curKey, curDir) ==
    IF key = curKey
    THEN [sortKey |-> curKey,
          sortDirection |-> IF curDir = "asc" THEN "desc" ELSE "asc"]
    ELSE [sortKey |-> key, sortDirection |-> "asc"]

\* a wrong guard: xmlDoc !== null
SubmitGuard_NotNull(doc) == doc.kind # "null"

\* if (xmlDoc)
SubmitGuard(doc) == Truthy(doc)

\* a wrong handler: the list is refreshed before the element is appended
SubmitEffect_StaleList(doc, list, rec) ==
    IF ~SubmitGuard(doc)
    THEN [xmlDoc |-> doc, airlines |-> list, newAirline |-> rec,
          console |-> <<>>, thrown |-> FALSE, added |-> FALSE]
    ELSE IF doc.kind # "doc" \/ doc.root = <<>>
    THEN [xmlDoc |-> doc, airlines |-> list, newAirline |-> rec,
          console |-> <<>>, thrown |-> TRUE, added |-> FALSE]
    ELSE LET grown == Document(<<AppendChild(doc.root[1],
                                             CreateAirlineElement(rec))>>)
         IN  [xmlDoc |-> grown,
              airlines |-> UpdateAirlineList(doc),
              newAirline |-> BlankAirline,
              console |-> <<LogEntry(grown)>>,
              thrown |-> FALSE, added |-> TRUE]

\* a wrong handler: the tree is serialized and logged before the element is
\* appended
SubmitEffect_LogFirst(doc, list, rec) ==
    IF ~SubmitGuard(doc)
    THEN [xmlDoc |-> doc, airlines |-> list, newAirline |-> rec,
          console |-> <<>>, thrown |-> FALSE, added |-> FALSE]
    ELSE IF doc.kind # "doc" \/ doc.root = <<>>
    THEN [xmlDoc |-> doc, airlines |-> list, newAirline |-> rec,
          console |-> <<>>, thrown |-> TRUE, added |-> FALSE]
    ELSE LET grown == Document(<<AppendChild(doc.root[1],
                                             CreateAirlineElement(rec))>>)
         IN  [xmlDoc |-> grown,
              airlines |-> UpdateAirlineList(grown),
              newAirline |-> BlankAirline,
              console |-> <<LogEntry(doc)>>,
              thrown |-> FALSE, added |-> TRUE]

\* a wrong handler: the pending record is not cleared after the append
SubmitEffect_KeepPending(doc, list, rec) ==
    IF ~SubmitGuard(doc)
    THEN [xmlDoc |-> doc, airlines |-> list, newAirline |-> rec,
          console |-> <<>>, thrown |-> FALSE, added |-> FALSE]
    ELSE IF doc.kind # "doc" \/ doc.root = <<>>
    THEN [xmlDoc |-> doc, airlines |-> list, newAirline |-> rec,
          console |-> <<>>, thrown |-> TRUE, added |-> FALSE]
    ELSE LET grown == Document(<<AppendChild(doc.root[1],
                                             CreateAirlineElement(rec))>>)
         IN  [xmlDoc |-> grown,
              airlines |-> UpdateAirlineList(grown),
              newAirline |-> rec,
              console |-> <<LogEntry(grown)>>,
              thrown |-> FALSE, added |-> TRUE]

\* handleSubmit with the tree doc, the list and the pending record rec:
\* nothing without a tree; a TypeError, before any state is set, when the
\* tree has no document element; else the element is appended to the
\* document element, the list is projected again, the pending record is
\* cleared and the serialized tree is logged
SubmitEffect(doc, list, rec) ==
    IF ~SubmitGuard(doc)
    THEN [xmlDoc |-> doc, airlines |-> list, newAirline |-> rec,
          console |-> <<>>, thrown |-> FALSE, added |-> FALSE]
    ELSE IF doc.kind # "doc" \/ doc.root = <<>>
    THEN [xmlDoc |-> doc, airlines |-> list, newAirline |-> rec,
          console |-> <<>>, thrown |-> TRUE, added |-> FALSE]
    ELSE LET grown == Document(<<AppendChild(doc.root[1],
                                             CreateAirlineElement(rec))>>)
         IN  [xmlDoc |-> grown,
              airlines |-> UpdateAirlineList(grown),
              newAirline |-> BlankAirline,
              console |-> <<LogEntry(grown)>>,
              thrown |-> FALSE, added |-> TRUE]

\* a wrong load: there is no catch block, so a failure escapes fetchData
\* and nothing is logged
FetchEffect_NoCatch(outcome, doc, curDoc, list) ==
    IF outcome = "ok" /\ doc.kind = "doc"
    THEN [xmlDoc |-> doc, airlines |-> UpdateAirlineList(doc),
          console |-> <<>>, thrown |-> FALSE, fetchState |-> "loaded"]
    ELSE [xmlDoc |-> IF outcome = "ok" THEN doc ELSE curDoc,
          airlines |-> list, console |-> <<>>, thrown |-> TRUE,
          fetchState |-> IF outcome = "ok" THEN "projectFailed"
                         ELSE outcome]

\* fetchData: outcome names the step that raised ("fetchFailed",
\* "textFailed", "parseFailed") or is "ok" when the parser returned doc.
\* setXmlDoc(doc) runs before updateAirlineList(doc), and the projection
\* raises a TypeError when doc is not a document; every failure is caught
\* and logged with console.error.
FetchEffect(outcome, doc, curDoc, list) ==
    IF outcome = "ok" /\ doc.kind = "doc"
    THEN [xmlDoc |-> doc, airlines |-> UpdateAirlineList(doc),
          console |-> <<>>, thrown |-> FALSE, fetchState |-> "loaded"]
    ELSE [xmlDoc |-> IF outcome = "ok" THEN doc ELSE curDoc,
          airlines |-> list, console |-> <<ErrorEntry>>, thrown |-> FALSE,
          fetchState |-> IF outcome = "ok" THEN "projectFailed"
                         ELSE outcome]

(* ---------------------------- input files ------------------------------- *)

Field(k, s) == Element(k, <<TextNode(s)>>)

\* a complete block
BlockFull == Element("airline",
    <<Field("name", StrB), Field("country", StrA), Field("type", StrA)>>)

\* a block without country, its name after an empty name element
BlockNoCountry == Element("airline",
    <<Element("name", <<>>), Field("name", StrA), Field("type", StrA)>>)

\* a block below a wrapper, holding another airline and a country that is
\* not its own child
BlockNested == Element("group",
    <<Element("airline",
        <<Field("name", StrC),
          Element("airline", <<Field("name", StrA), Field("country", StrB)>>),
          Element("info", <<Field("country", StrB)>>)>>)>>)

Blocks == {BlockNoCountry, BlockNested}

BlockLists == UNION {[1..n -> Blocks] : n \in 0..MaxBlocks}

\* a document whose root is itself an airline, over a complete block
RootAirlineDoc == Document(<<Element("airline",
    <<Field("name", StrA), BlockFull>>)>>)

\* a document without a document element
RootlessDoc == Document(<<>>)

\* what the parser can return: a root named airlines over up to MaxBlocks
\* blocks, the two special documents, or no document
ParsedDocs ==
    {Document(<<Element("airlines", kids)>>) : kids \in BlockLists}
        \cup {RootAirlineDoc, RootlessDoc, UndefinedDoc}

(* ---------------------------- state machine ----------------------------- *)

LoadFailed ==
    fetchState \in {"fetchFailed", "textFailed", "parseFailed", "projectFailed"}

\* const sortedAirlines = [...airlines].sort(...): the list a render of the
\* current state displays
sortedAirlines == Sorted(airlines, sortKey, sortDirection)

Init ==
    /\ xmlDoc = NullDoc
    /\ airlines = <<>>
    /\ newAirline = BlankAirline
    /\ sortKey = "name"
    /\ sortDirection = "asc"
    /\ fetchState = "pending"
    /\ console = <<>>
    /\ thrown = FALSE
    /\ lastEvent = "other"
    /\ nAdds = 0

\* the render that follows the state updates of a handler
Rerender(list, key, dir) ==
    /\ airlines' = ArrayAfterRender(list, key, dir)
    /\ sortKey' = key
    /\ sortDirection' = dir

FetchSettles(outcome, doc) ==
    /\ fetchState = "pending"
    /\ LET e == FetchEffect(outcome, doc, xmlDoc, airlines)
       IN  /\ xmlDoc' = e.xmlDoc
           /\ Rerender(e.airlines, sortKey, sortDirection)
           /\ console' = e.console
           /\ thrown' = e.thrown
           /\ fetchState' = e.fetchState
    /\ lastEvent' = "other"
    /\ UNCHANGED <<newAirline, nAdds>>

\* fetch("./AirlineData.xml") rejects
FetchRejects == FetchSettles("fetchFailed", NullDoc)

\* response.text() rejects
TextRejects == FetchSettles("textFailed", NullDoc)

\* parser.parseFromString throws
ParseThrows == FetchSettles("parseFailed", NullDoc)

\* the parser returns, and the rest of the try block runs
ParseReturns == \E doc \in ParsedDocs : FetchSettles("ok", doc)

\* handleInputChange for the input called name holding value
InputChange(name, value) ==
    /\ newAirline' = [newAirline EXCEPT ![name] = value]
    /\ Rerender(airlines, sortKey, sortDirection)
    /\ console' = <<>>
    /\ thrown' = FALSE
    /\ lastEvent' = "other"
    /\ UNCHANGED <<xmlDoc, fetchState, nAdds>>

HandleInputChange ==
    \E name \in SortKeys, value \in InputValues : InputChange(name, value)

\* handleSubmit
HandleSubmit ==
    LET e == SubmitEffect(xmlDoc, airlines, newAirline)
    IN  /\ e.added => nAdds < MaxAdds
        /\ xmlDoc' = e.xmlDoc
        /\ newAirline' = e.newAirline
        /\ Rerender(e.airlines, sortKey, sortDirection)
        /\ console' = e.console
        /\ thrown' = e.thrown
        /\ nAdds' = IF e.added THEN nAdds + 1 ELSE nAdds
        /\ lastEvent' = "submit"
        /\ UNCHANGED fetchState

\* a click on the sort button of key
SortClick(key) ==
    LET s == HandleSortState(key, sortKey, sortDirection)
    IN  /\ Rerender(airlines, s.sortKey, s.sortDirection)
        /\ console' = <<>>
        /\ thrown' = FALSE
        /\ lastEvent' = "other"
        /\ UNCHANGED <<xmlDoc, newAirline, fetchState, nAdds>>

\* handleSort
HandleSort == \E key \in SortKeys : SortClick(key)

Next ==
    \/ FetchRejects
    \/ TextRejects
    \/ ParseThrows
    \/ ParseReturns
    \/ HandleInputChange
    \/ HandleSubmit
    \/ HandleSort

Spec == Init /\ [][Next]_vars

(* ---------------------------- reference notions ------------------------ *)

RECURSIVE PathsIn(_)
\* the positions of the nodes of a subtree, as sequences of child indices
PathsIn(n) ==
    {<<>>} \cup UNION {{<<i>> \o p : p \in PathsIn(n.kids[i])} :
                        i \in DOMAIN n.kids}

RECURSIVE NodeAt(_, _)
NodeAt(n, p) == IF p = <<>> THEN n ELSE NodeAt(n.kids[Head(p)], Tail(p))

RECURSIVE Before(_, _)
\* document order on positions: an ancestor comes before its descendants,
\* an earlier sibling's subtree before a later sibling's
Before(p, q) ==
    IF p = <<>> THEN q # <<>>
    ELSE IF q = <<>> THEN FALSE
    ELSE IF Head(p) # Head(q) THEN Head(p) < Head(q)
    ELSE Before(Tail(p), Tail(q))

\* the positions of the airline elements of a document
AirlinePaths(doc) ==
    IF doc.root = <<>> THEN {}
    ELSE {p \in PathsIn(doc.root[1]) :
            IsElement(NodeAt(doc.root[1], p), "airline")}

\* 1 for the first airline element in document order, 2 for the next, ...
OrdinalOf(paths, p) ==
    1 + Cardinality({q \in paths : Before(q, p)})

Last(list) == list[Len(list)]

\* this step is a submit that appended an element
Appends == lastEvent' = "submit" /\ nAdds' = nAdds + 1

(* ---------------------------- C1 ---------------------------------------- *)

\* C1: the query yields exactly one record per airline element of the
\* tree, at whatever depth the element is, and the i-th record is the one
\* of the i-th airline element in document order.
C1_OneRecordPerAirline ==
    Truthy(xmlDoc) =>
        LET list == UpdateAirlineList(xmlDoc)
            paths == AirlinePaths(xmlDoc)
        IN  /\ Len(list) = Cardinality(paths)
            /\ \A p \in paths :
                   list[OrdinalOf(paths, p)]
                       = AirlineOf(NodeAt(xmlDoc.root[1], p))

\* a loaded tree with an airline that is not a child of the root, and
\* several airlines
C1_Witness ==
    /\ fetchState = "loaded"
    /\ Cardinality(AirlinePaths(xmlDoc)) >= 3
    /\ \E p \in AirlinePaths(xmlDoc) : Len(p) >= 2
    /\ airlines = UpdateAirlineList(xmlDoc)

(* ---------------------------- C2 ---------------------------------------- *)

C3_Original ==
    [][Appends => Last(UpdateAirlineList(xmlDoc')) = newAirline]_vars

ReadBack(s) == IF s = Empty THEN Unknown ELSE s

\* C3: after appending R, the last record of the query has, in each field,
\* R's value when that value is not the empty string, and "Unknown" when
\* it is.
C3_LastRecordReadsBack ==
    [][Appends =>
         \A k \in SortKeys :
             Last(UpdateAirlineList(xmlDoc'))[k] = ReadBack(newAirline[k])]_vars

\* a record with a filled and an empty field has been appended
C3_Witness ==
    /\ lastEvent = "submit"
    /\ nAdds >= 1
    /\ Last(airlines).name = StrB
    /\ Last(airlines).country = Unknown
    /\ Last(xmlDoc.root[1].kids).kids[2].kids = <<>>

(* ---------------------------- C4 ---------------------------------------- *)

Projection(doc) == IF Truthy(doc) THEN UpdateAirlineList(doc) ELSE <<>>

\* C4: in every state the record list is the projection of the current
\* tree, empty when there is no tree, and the displayed list is that
\* projection sorted by the current key and direction.
C4_ListIsProjection ==
    /\ airlines = Projection(xmlDoc)
    /\ sortedAirlines = Sorted(Projection(xmlDoc), sortKey, sortDirection)

\* after a load, an add and sort events, with a display that differs from
\* the document order
C4_Witness ==
    /\ fetchState = "loaded"
    /\ nAdds >= 1
    /\ sortKey = "country"
    /\ sortDirection = "desc"
    /\ sortedAirlines # airlines

(* ---------------------------- C5 ---------------------------------------- *)

\* this step is the one in which the load fails
LoadFails == fetchState = "pending" /\ LoadFailed'

C6_SubmitWithoutTreeIsNoOp ==
    [][(lastEvent' = "submit" /\ fetchState # "loaded") =>
         /\ ~thrown'
         /\ console' = <<>>
         /\ UNCHANGED <<xmlDoc, airlines, newAirline, sortKey,
                        sortDirection, nAdds>>]_vars

\* a filled form has been submitted after a failed load
C6_Witness ==
    /\ lastEvent = "submit"
    /\ fetchState = "projectFailed"
    /\ newAirline.name = StrB

\* a filled form has been submitted while the load was pending
C6_WitnessPending ==
    /\ lastEvent = "submit"
    /\ fetchState = "pending"
    /\ newAirline.name = StrB

(* ---------------------------- C7 ---------------------------------------- *)

\* the k children of node that have a text of their own
FilledChildren(node, k) ==
    {i \in DOMAIN node.kids :
        /\ IsElement(node.kids[i], k)
        /\ \E j \in DOMAIN node.kids[i].kids : IsText(node.kids[i].kids[j])}

\* the first text of the element
OwnText(e) ==
    e.kids[CHOOSE j \in DOMAIN e.kids :
              /\ IsText(e.kids[j])
              /\ \A h \in 1..(j - 1) : ~IsText(e.kids[h])].data

Min(S) == CHOOSE x \in S : \A y \in S : x <= y

\* C7: each field of the record of an airline element is the text of a
\* like-named immediate child of that element (the first that has one),
\* and "Unknown" when no immediate child of that name has a text; each
\* field is decided by its own children only.
C7_FieldsFromImmediateChildren ==
    Truthy(xmlDoc) =>
        LET list == UpdateAirlineList(xmlDoc)
            paths == AirlinePaths(xmlDoc)
        IN  \A p \in paths : \A k \in SortKeys :
                LET node == NodeAt(xmlDoc.root[1], p)
                    filled == FilledChildren(node, k)
                IN  list[OrdinalOf(paths, p)][k]
                        = IF filled = {} THEN Unknown
                          ELSE OwnText(node.kids[Min(filled)])

\* an airline whose only country elements are deeper descendants, one of
\* them the child of another airline, and which has a name of its own
C7_Witness ==
    /\ fetchState = "loaded"
    /\ \E p \in AirlinePaths(xmlDoc) :
          LET node == NodeAt(xmlDoc.root[1], p)
          IN  /\ FilledChildren(node, "country") = {}
              /\ DescendantTexts(node.kids, "country", 1) # <<>>
              /\ FilledChildren(node, "name") # {}
              /\ airlines[OrdinalOf(AirlinePaths(xmlDoc), p)].country
                     = Unknown

(* ---------------------------- C8 ---------------------------------------- *)

Flip(dir) == IF dir = "asc" THEN "desc" ELSE "asc"

\* C8: the sort state starts at (name, asc); a click on another key makes
\* it the key and the direction asc; a click on the current key keeps the
\* key and flips the direction, so that a second click restores it; after
\* every change of the key the direction is asc.
C8_SortStateMachine ==
    /\ sortKey = "name" /\ sortDirection = "asc"
    /\ [][/\ \A k \in SortKeys :
                SortClick(k) =>
                    IF k # sortKey
                    THEN sortKey' = k /\ sortDirection' = "asc"
                    ELSE /\ sortKey' = sortKey
                         /\ sortDirection' = Flip(sortDirection)
                         /\ HandleSortState(k, sortKey', sortDirection')
                                = [sortKey |-> sortKey,
                                   sortDirection |-> sortDirection]
          /\ sortKey' # sortKey => sortDirection' = "asc"]_vars

\* the key has been changed and then clicked again
C8_Witness ==
    /\ sortKey = "type"
    /\ sortDirection = "desc"

(* ---------------------------- C9 ---------------------------------------- *)

Occurrences(list, r) == Cardinality({i \in DOMAIN list : list[i] = r})

IsPermutation(a, b) ==
    /\ Len(a) = Len(b)
    /\ \A i \in DOMAIN a : Occurrences(a, a[i]) = Occurrences(b, a[i])

\* C9: the displayed list is a permutation of the record list, and along
\* it the selected field never decreases when the direction is asc and
\* never increases when it is desc.
C9_DisplayIsSortedPermutation ==
    /\ IsPermutation(airlines, sortedAirlines)
    /\ \A i \in 1..(Len(sortedAirlines) - 1) :
          IF sortDirection = "asc"
          THEN ~StrLess(sortedAirlines[i + 1][sortKey],
                        sortedAirlines[i][sortKey])
          ELSE ~StrLess(sortedAirlines[i][sortKey],
                        sortedAirlines[i + 1][sortKey])

\* a descending display of several records that differs from the document
\* order, with a tie and a strict descent in the selected field
C9_Witness ==
    /\ sortDirection = "desc"
    /\ Len(airlines) >= 3
    /\ sortedAirlines # airlines
    /\ \E i \in 1..(Len(sortedAirlines) - 1) :
          StrLess(sortedAirlines[i + 1][sortKey], sortedAirlines[i][sortKey])
    /\ \E i \in 1..(Len(sortedAirlines) - 1) :
          sortedAirlines[i + 1][sortKey] = sortedAirlines[i][sortKey]

(* ---------------------------- C10 --------------------------------------- *)

\* C10: a sort event, with the render that follows it, leaves the tree,
\* the unsorted record list and the pending record as they are, so the
\* query returns after it what it returned before it.
C10_SortChangesOnlySortState ==
    [][\A k \in SortKeys :
          SortClick(k) =>
              /\ UNCHANGED <<xmlDoc, airlines, newAirline>>
              /\ Projection(xmlDoc') = Projection(xmlDoc)
              /\ airlines' = Projection(xmlDoc')]_vars

\* sort events on a loaded and grown tree whose display is not in document
\* order
C10_Witness ==
    /\ sortKey = "country"
    /\ sortDirection = "asc"
    /\ nAdds >= 1
    /\ Len(airlines) >= 3
    /\ sortedAirlines # airlines
    /\ airlines = Projection(xmlDoc)

(* ---------------------------- C11 --------------------------------------- *)

\* the entries of a console that carry a serialized tree
XmlWrites(out) == {i \in DOMAIN out : out[i].stream = "log"}

\* the text ends with the part, followed by the end tag of the root only
EndsWithElement(text, part) ==
    /\ Len(text) > Len(part)
    /\ SubSeq(text, Len(text) - Len(part), Len(text) - 1) = part
    /\ Last(text).k = "close"

\* C11: a successful add writes the serialized tree to the console exactly
\* once, and writes the tree as it is after the append: the text is that of
\* the grown tree and ends with the new element, whose fields are the ones
\* that were submitted; a step of any other event (load, sort, input
\* change, a submit that appends nothing) writes no serialized tree.
C11_AddLogsGrownTreeOnce ==
    [][IF Appends
       THEN /\ Cardinality(XmlWrites(console')) = 1
            /\ Len(console') = 1
            /\ console'[1].text = SerializeToString(xmlDoc')
            /\ console'[1].text # SerializeToString(xmlDoc)
            /\ EndsWithElement(console'[1].text,
                               SerializeNode(CreateAirlineElement(newAirline)))
       ELSE XmlWrites(console') = {}]_vars

\* a record with a filled name has been added to a loaded tree that had
\* records, and the logged text carries that name
C11_Witness ==
    /\ lastEvent = "submit"
    /\ nAdds >= 1
    /\ Len(airlines) >= 2
    /\ XmlWrites(console) = {1}
    /\ \E i \in DOMAIN console[1].text :
          console[1].text[i] = Token("text", "", StrB)

\* a failed load has written to the console, and not a serialized tree
C11_WitnessLoadError ==
    /\ LoadFailed
    /\ console = <<ErrorEntry>>
    /\ XmlWrites(console) = {}

(* ---------------------------- C12 --------------------------------------- *)

\* C12: after a successful append the pending record has the empty string
\* in its three fields, whatever it held before; an input change sets the
\* pending field that the input names to the value of the input and leaves
\* the other two pending fields, the tree and the record list as they are.
C12_PendingRecord ==
    [][/\ Appends =>
            /\ newAirline'.name = Empty
            /\ newAirline'.country = Empty
            /\ newAirline'.type = Empty
            /\ DOMAIN newAirline' = SortKeys
       /\ \A name \in SortKeys, value \in InputValues :
            InputChange(name, value) =>
                /\ newAirline'[name] = value
                /\ \A k \in SortKeys \ {name} : newAirline'[k] = newAirline[k]
                /\ DOMAIN newAirline' = SortKeys
                /\ UNCHANGED <<xmlDoc, airlines>>]_vars

\* a record with a filled name has been appended, and the pending record
\* is blank again
C12_Witness ==
    /\ lastEvent = "submit"
    /\ nAdds >= 1
    /\ Last(airlines).name = StrB
    /\ Last(airlines).type = StrB
    /\ newAirline = [name |-> Empty, country |-> Empty, type |-> Empty]

\* after an add, inputs have filled two fields of the pending record of a
\* loaded tree and left the third empty
C12_WitnessInput ==
    /\ lastEvent = "other"
    /\ fetchState = "loaded"
    /\ nAdds >= 1
    /\ newAirline.name = StrB
    /\ newAirline.country = Empty
    /\ newAirline.type = StrB
    /\ airlines = Projection(xmlDoc)

(* ---------------------------- C13 --------------------------------------- *)

\* the records of the list, each with its place in the list, so that two
\* records with the same fields are still two records
Tagged(list) ==
    [i \in 1..Len(list) |->
        [name |-> list[i].name, country |-> list[i].country,
         type |-> list[i].type, pos |-> i]]

Untagged(list) ==
    [i \in 1..Len(list) |->
        [name |-> list[i].name, country |-> list[i].country,
         type |-> list[i].type]]

\* records with the same value in the field key are in the order of their
\* places in the unsorted list
TiesInListOrder(shown, key) ==
    \A i, j \in DOMAIN shown :
        (i < j /\ shown[i][key] = shown[j][key]) => shown[i].pos < shown[j].pos

\* two records of the list have the same value in the field key
HasTie(list, key) ==
    \E i, j \in DOMAIN list : i < j /\ list[i][key] = list[j][key]

\* C13: in the display of the record list by the current key, ascending
\* and descending alike, two records with the same value in that field
\* are in the order they have in the unsorted list, the document order;
\* when the list has such a pair, the descending display is not the
\* ascending display read backwards.
C13_TiesKeepDocumentOrder ==
    LET asc == Sorted(Tagged(airlines), sortKey, "asc")
        desc == Sorted(Tagged(airlines), sortKey, "desc")
    IN  /\ TiesInListOrder(asc, sortKey)
        /\ TiesInListOrder(desc, sortKey)
        /\ sortedAirlines
               = Untagged(IF sortDirection = "asc" THEN asc ELSE desc)
        /\ HasTie(airlines, sortKey) => desc # Reverse(asc)

\* a descending display, not in document order, of a loaded and grown list
\* in which records that differ have the same value in the selected field
C13_Witness ==
    /\ sortDirection = "desc"
    /\ nAdds >= 1
    /\ Len(airlines) >= 3
    /\ sortedAirlines # airlines
    /\ \E i, j \in DOMAIN airlines :
          /\ i < j
          /\ airlines[i][sortKey] = airlines[j][sortKey]
          /\ airlines[i] # airlines[j]

====
